---- MODULE Spec2Model ----
(***************************************************************************)
(* Model of the Stream class of src/src/stream.ts: the WebSocket handshake *)
(* (_connect), the transcription queue (_push, _pull, _pullWithTimeout),   *)
(* the inbound dispatcher (_onMessage, _onClose), close(), sendAudio(),    *)
(* the auto-extend policy (_autoExtendSession) and transcribeFile; of      *)
(* loadWav and silence (src/src/index.ts) and of transcriptionFromMessage  *)
(* (src/src/types.ts).                                                     *)
(*                                                                         *)
(* The program is single-threaded and event-driven.  One action is one    *)
(* run-to-completion piece of code: an event handler, a timer callback, a  *)
(* call made by the user, or the continuation of an await.                 *)
(***************************************************************************)
EXTENDS Naturals, Integers, Sequences, FiniteSets, TLC

\* ---------------------------------------------------------------- bounds
MaxFrames == 2   \* transcription, session_expiring and session_expired
                 \* frames the server sends once the stream is ready
MaxCalls == 3    \* calls the user makes on the stream

Consumers == {1, 2}  \* call sites that pull from the queue

\* The end sentinel of the queue (stream.ts:42, "null = end sentinel").
\* Transcriptions are identified by their arrival number 1, 2, ...
NULL == 0

\* ------------------------------------------------------------ frame kinds
\* Text frames that parse to a JSON object, by their "type" field;
\* "other" is any type the dispatcher does not know.
TypedKinds ==
  {"ready", "transcription", "session_expiring", "session_extended",
   "session_expired", "error", "other"}
\* "malformed" is a text frame that is not valid JSON; "binary" is a binary
\* frame (its bytes are not JSON text); "json_null" is the text frame null,
\* valid JSON that is not an object.
FrameKinds == TypedKinds \cup {"malformed", "binary", "json_null"}

VARIABLES
  wsState,      \* this._ws: "null" | "connecting" | "open" | "closing" |
                \* "aborting" | "errored" | "closed"
  hsTimer,      \* the 30 s handshake timer is armed
  onceMsg,      \* the once("message") listener of _connect is registered
  steady,       \* the steady-state "message" and "close" listeners are installed
  connect,      \* the promise of _connect: "pending" | "resolved" | "rejected"
  connectErr,   \* class of the rejection: "none" | "ConnectionError" | "STTError"
  _closed,      \* this._closed
  _extending,   \* this._extending
  _autoExtend,  \* this._autoExtend
  _queue,       \* this._queue
  _waiters,     \* this._waiters: records [c |-> consumer, timed |-> BOOLEAN]
  _callbacks,   \* this._callbacks: per callback, what it saw and when it was added
  pc,           \* per consumer: "idle" | "wait" | "woken" | "waitT"
  received,     \* per consumer: the values its pulls returned, with their cause
  sent,         \* frames transmitted on the connection, in order
  inFlight,     \* extension requests issued and not yet completed
  timers,       \* consumers whose _pullWithTimeout timer is armed
  tf,           \* the transcribeFile generator: position, file, what it sent
  parse,        \* a message handed to transcriptionFromMessage, and its result
  hist          \* history record (observations, not program state)

progVars ==
  <<wsState, hsTimer, onceMsg, steady, connect, connectErr, _closed,
    _extending, _autoExtend, _queue, _waiters, _callbacks, pc, received,
    sent, inFlight, timers, tf, parse>>
vars ==
  <<wsState, hsTimer, onceMsg, steady, connect, connectErr, _closed,
    _extending, _autoExtend, _queue, _waiters, _callbacks, pc, received,
    sent, inFlight, timers, tf, parse, hist>>

\* ---------------------------------------------------------------- helpers
Last(s) == s[Len(s)]

RECURSIVE NonNull(_)
NonNull(s) ==
  IF s = <<>> THEN <<>>
  ELSE IF Head(s) = NULL THEN NonNull(Tail(s))
       ELSE <<Head(s)>> \o NonNull(Tail(s))

RECURSIVE Values(_)
Values(r) == IF r = <<>> THEN <<>> ELSE <<Head(r).v>> \o Values(Tail(r))

\* No continuation of an await is waiting to run.  Timers and connection
\* events are separate tasks: they run only when the microtask queue is empty.
NoMicrotask == \A c \in Consumers : pc[c] # "woken"

\* Frames the server has sent that change the state of the stream, and calls
\* the user has made: pulls, close(), sendAudio() and onTranscription().
Frames == hist.nTrans + hist.warnings + hist.expired + hist.crashes
PullsOf(c) == Len(received[c]) + (IF pc[c] = "idle" THEN 0 ELSE 1)
Calls ==
  hist.closeCalls + hist.sendCalls + Len(_callbacks) + PullsOf(1) + PullsOf(2)
\* Consumers are interchangeable: consumer c pulls only once every consumer
\* before it has pulled.
MayPull(c) ==
  /\ Calls < MaxCalls
  /\ \A d \in Consumers : d < c => PullsOf(d) > 0

\* A promise is settled once: resolve/reject on a settled promise is a no-op.
Settle(cur, new) == IF cur = "pending" THEN new ELSE cur
SettleErr(cur, curErr, err) == IF cur = "pending" THEN err ELSE curErr

\* WebSocket.close() of the ws library: starts the closing handshake of an
\* open socket, aborts a connecting one (an "error" event follows), and does
\* nothing on a socket that is already closing or closed.
WsClose(st) ==
  CASE st = "open" -> "closing"
    [] st = "connecting" -> "aborting"
    [] OTHER -> st

\* ------------------------------------------------------------------ audio
\* PCM16 mono 16 kHz (index.ts:17-20) and the pacing of transcribeFile
\* (stream.ts:15-17, 165).
SAMPLE_RATE == 16000
SAMPLE_WIDTH == 2
CHANNELS == 1
BYTES_PER_SECOND == SAMPLE_RATE * SAMPLE_WIDTH * CHANNELS
TRAILING_SILENCE_SECONDS == 2
CHUNK_MS == 20
chunkBytes_samples == (SAMPLE_RATE * CHUNK_MS) \div 1000
chunkBytes == (BYTES_PER_SECOND * CHUNK_MS) \div 1000

Min(a, b) == IF a < b THEN a ELSE b

\* Length of buf.subarray(start, end) of a buffer of len bytes, for
\* 0 <= start <= end: both indices are clamped to the buffer.
SubarrayLen(len, start, end) == Min(end, len) - Min(start, len)

\* silence(durationSeconds) (index.ts:114-117): the number of zero bytes.
silence(durationSeconds) == BYTES_PER_SECOND * durationSeconds

\* A file on disk.  A RIFF file is a 12-byte header ("RIFF", size, "WAVE")
\* followed by chunks; a chunk is an 8-byte header (id, declared size) followed
\* by its body.  Here a file is given by: whether it can be read; whether the
\* two magic words are right; its chunks, each with the size its header
\* declares and the bytes of body that are present (fewer than declared only
\* in the last chunk, where the file was cut); and the four fields a complete
\* fmt body carries.
Chunk(id, size, present) == [id |-> id, size |-> size, present |-> present]
DataChunks ==
  {Chunk("data", 1, 1), Chunk("data", 640, 640), Chunk("data", 641, 641),
   Chunk("data", 1280, 1280), Chunk("data", 1280, 640), Chunk("data", 640, 0)}
Layouts ==
  {<<>>}
  \cup {<<Chunk("fmt ", 16, 16), d>> : d \in DataChunks}
  \cup {<<Chunk("LIST", 16, 16), Chunk("fmt ", 16, 16), d>> : d \in DataChunks}
  \cup {<<Chunk("fmt ", 16, 16), Chunk("data", 0, 0), Chunk("LIST", 16, 16)>>,
        <<Chunk("LIST", 16, 16), Chunk("fmt ", 16, 16)>>,
        <<Chunk("LIST", 16, 16), Chunk("fmt ", 16, 8)>>,
        <<Chunk("LIST", 16, 16), Chunk("data", 640, 640)>>,
        <<Chunk("data", 640, 640), Chunk("fmt ", 16, 16)>>,
        <<Chunk("fmt ", 0, 0), Chunk("data", 640, 640)>>,
        <<Chunk("LIST", 16, 16), Chunk("fmt ", 0, 0), Chunk("data", 1, 1)>>}
\* The format loadWav accepts, and the formats that differ from it in one
\* field.
PCM16 ==
  [audioFormat |-> 1, channels |-> CHANNELS, sampleRate |-> SAMPLE_RATE,
   bitsPerSample |-> 8 * SAMPLE_WIDTH]
FmtFields ==
  {PCM16, [PCM16 EXCEPT !.audioFormat = 3], [PCM16 EXCEPT !.channels = 2],
   [PCM16 EXCEPT !.sampleRate = 44100], [PCM16 EXCEPT !.bitsPerSample = 8]}
WavFiles ==
  [exists : {TRUE}, magic : BOOLEAN, chunks : Layouts, fmt : FmtFields]
  \cup {[exists |-> FALSE, magic |-> FALSE, chunks |-> <<>>, fmt |-> PCM16]}

RECURSIVE BytesPresent(_)
BytesPresent(chunks) ==
  IF chunks = <<>> THEN 0
  ELSE 8 + Head(chunks).present + BytesPresent(Tail(chunks))
\* buf.length
FileLen(f) == 12 + BytesPresent(f.chunks)

\* The chunk scan of loadWav (index.ts:56-73), at chunk i found at offset.
RECURSIVE ScanChunks(_, _, _, _)
ScanChunks(f, i, offset, fmt) ==
  IF i > Len(f.chunks) \/ ~(offset < FileLen(f) - 8)
  THEN [fmtOffset |-> fmt.at, fmtChunk |-> fmt.i, dataOffset |-> -1, dataSize |-> 0]
  ELSE IF f.chunks[i].id = "data"
       THEN [fmtOffset |-> fmt.at, fmtChunk |-> fmt.i,
             dataOffset |-> offset + 8, dataSize |-> f.chunks[i].size]
       ELSE ScanChunks(f, i + 1, offset + 8 + f.chunks[i].size,
                       IF f.chunks[i].id = "fmt "
                       THEN [at |-> offset + 8, i |-> i] ELSE fmt)

\* The four fields read at fmtOffset (index.ts:82-85).  When the body of the
\* fmt chunk is shorter than the 16 bytes read, the bytes are those of the
\* header that follows: audioFormat is then the first two letters of "data"
\* read as a little-endian number.
FieldsAt(f, i) ==
  IF f.chunks[i].present >= 16 THEN f.fmt
  ELSE [audioFormat |-> 24932, channels |-> 24948, sampleRate |-> 0,
        bitsPerSample |-> 0]

\* The length of pcmData (index.ts:109).
PcmLen(f, sc) ==
  SubarrayLen(FileLen(f), sc.dataOffset, sc.dataOffset + sc.dataSize)

Thrown(e) == [err |-> e, len |-> 0]

\* loadWav (index.ts:33-111): the error it throws, or the length of pcmData.
\* readUInt16LE and readUInt32LE throw a RangeError when they are asked to
\* read past the end of the buffer.
loadWav(f) ==
  IF ~f.exists THEN Thrown("AudioFormatError")
  ELSE IF FileLen(f) < 44 THEN Thrown("AudioFormatError")
  ELSE IF ~f.magic THEN Thrown("AudioFormatError")
  ELSE LET sc == ScanChunks(f, 1, 12, [at |-> -1, i |-> 0]) IN
    IF sc.fmtOffset = -1 THEN Thrown("AudioFormatError")
    ELSE IF sc.dataOffset = -1 THEN Thrown("AudioFormatError")
    ELSE IF sc.fmtOffset + 16 > FileLen(f) THEN Thrown("RangeError")
    ELSE LET h == FieldsAt(f, sc.fmtChunk) IN
      IF h.audioFormat # 1 THEN Thrown("AudioFormatError")
      ELSE IF h.sampleRate # SAMPLE_RATE THEN Thrown("AudioFormatError")
      ELSE IF h.channels # CHANNELS THEN Thrown("AudioFormatError")
      ELSE IF h.bitsPerSample # 8 * SAMPLE_WIDTH THEN Thrown("AudioFormatError")
      ELSE [err |-> "none", len |-> PcmLen(f, sc)]

\* ------------------------------------------------------------------- Init
\* The state inside _connect after the WebSocket was constructed, the timer
\* armed and the listeners registered (stream.ts:59-87), or after the
\* constructor threw (stream.ts:62-64).
InitHist ==
  [firstMsg |-> "none",     \* kind of the frame the once("message") listener got
   timedOut |-> FALSE,      \* the 30 s timer fired
   uncaught |-> FALSE,      \* an exception escaped an event listener
   dispatched |-> FALSE,    \* _onMessage ran at least once
   crashes |-> 0,           \* frames on which _onMessage threw
   threwAt |-> 0,           \* the first transcription on which a callback
                            \* threw; 0 while none did
   nTrans |-> 0,            \* transcription frames dispatched
   expired |-> 0,           \* session_expired frames dispatched
   warnings |-> 0,          \* session_expiring frames dispatched
   nullPushes |-> 0,        \* _push(null) calls
   endAt |-> -1,            \* transcriptions pushed before the first
                            \* _push(null); -1 while there was none
   wsCloseCalls |-> 0,      \* this._ws.close() calls
   closeCalls |-> 0,        \* close() calls
   raised |-> FALSE,        \* a close() call raised
   sendCalls |-> 0,         \* sendAudio() calls
   sendRes |-> "none",      \* outcome of the last sendAudio(): "ok" | "throw"
   extendCalls |-> 0,       \* this._client._extendSession() calls
   extFailed |-> FALSE,     \* an extension request failed
   minutes |-> 0,           \* minutes the last extension request asked for
   wokeT |-> FALSE,         \* a _push resolved a waiting _pullWithTimeout
   atClose |-> {}]          \* consumers suspended when close() was called,
                            \* until their pull returns

\* transcribeFile has not been called; transcriptionFromMessage has not been
\* applied.
TfOff ==
  [pc |-> "off",       \* "off" | "failed" | "pacing" | "flush" | "drain"
   err |-> "none",     \* what loadWav threw
   wellFormed |-> TRUE, \* the file given was a well-formed PCM16 mono 16 kHz WAV
   declared |-> 0,     \* the size its data chunk declares (-1: no data chunk)
   len |-> 0,          \* pcmData.length
   offset |-> 0,       \* offset
   out |-> <<>>]       \* in order: chunks and silence handed to this._ws.send,
                       \* and sleeps begun
ParseOff == [done |-> FALSE]

StreamInit ==
  /\ \/ /\ wsState = "connecting"
        /\ hsTimer = TRUE
        /\ onceMsg = TRUE
        /\ connect = "pending"
        /\ connectErr = "none"
     \/ /\ wsState = "null"
        /\ hsTimer = FALSE
        /\ onceMsg = FALSE
        /\ connect = "rejected"
        /\ connectErr = "ConnectionError"
  /\ steady = FALSE
  /\ _closed = FALSE
  /\ _extending = FALSE
  /\ _autoExtend \in BOOLEAN
  /\ _queue = <<>>
  /\ _waiters = <<>>
  /\ _callbacks = <<>>
  /\ pc = [c \in Consumers |-> "idle"]
  /\ received = [c \in Consumers |-> <<>>]
  /\ sent = <<>>
  /\ inFlight = 0
  /\ timers = {}
  /\ tf = TfOff
  /\ hist = InitHist

Init == StreamInit /\ parse = ParseOff

\* --------------------------------------------------------------- handshake
\* "open" listener (stream.ts:77-84): the config frame is sent.
WsOpen ==
  /\ wsState = "connecting"
  /\ NoMicrotask
  /\ wsState' = "open"
  /\ sent' = Append(sent, "config")
  /\ UNCHANGED <<hsTimer, onceMsg, steady, connect, connectErr, _closed,
                 _extending, _autoExtend,
                 timers, tf, parse, _queue, _waiters, _callbacks, pc,
                 received, inFlight, hist>>

\* The 30 s timer callback (stream.ts:67-70).
HsTimeout ==
  /\ hsTimer
  /\ NoMicrotask
  /\ hsTimer' = FALSE
  /\ wsState' = WsClose(wsState)
  /\ connect' = Settle(connect, "rejected")
  /\ connectErr' = SettleErr(connect, connectErr, "ConnectionError")
  /\ hist' = [hist EXCEPT !.timedOut = TRUE, !.wsCloseCalls = @ + 1]
  /\ UNCHANGED <<onceMsg, steady, _closed, _extending, _autoExtend,
                 timers, tf, parse, _queue,
                 _waiters, _callbacks, pc, received, sent, inFlight>>

\* "error" listener (stream.ts:72-75).  It stays registered for the life of
\* the socket.  The ws library destroys the socket on an error; its "close"
\* event follows.
WsError ==
  /\ wsState \in {"connecting", "open", "closing", "aborting"}
  /\ NoMicrotask
  /\ wsState' = "errored"
  /\ hsTimer' = FALSE
  /\ connect' = Settle(connect, "rejected")
  /\ connectErr' = SettleErr(connect, connectErr, "ConnectionError")
  /\ UNCHANGED <<onceMsg, steady, _closed, _extending, _autoExtend,
                 timers, tf, parse, _queue,
                 _waiters, _callbacks, pc, received, sent, inFlight, hist>>

\* What the once("message") listener makes of the first frame
\* (stream.ts:90-100): JSON.parse throws on text that is not JSON.
HsVerdict_noTypeCheck(k) ==
  CASE k = "malformed" -> "throw"
    [] k = "error" -> "error"
    [] OTHER -> "ready"
HsVerdict(k) ==
  CASE k = "malformed" -> "throw"
    [] k = "error" -> "error"
    [] k = "ready" -> "ready"
    [] OTHER -> "unexpected"

\* The listener installs the steady-state "message" and "close" listeners
\* only on the path that reaches stream.ts:105-107.
InstallsSteady_always(v) == TRUE
InstallsSteady(v) == v = "ready"

\* Frames as the once("message") listener sees them.  It does not look at
\* isBinary: a binary frame is handled by its bytes, like a text frame.
HsKinds == TypedKinds \cup {"malformed"}

\* once("message") listener (stream.ts:87-109).  The listener is removed
\* before it runs; the steady-state listeners it installs are not called for
\* the frame being handled.
HsMessage(k) ==
  /\ onceMsg
  /\ wsState \in {"open", "closing"}
  /\ onceMsg' = FALSE
  /\ hsTimer' = FALSE
  /\ LET v == HsVerdict(k) IN
       /\ wsState' = IF v \in {"error", "unexpected"} THEN WsClose(wsState) ELSE wsState
       /\ connect' = CASE v = "throw" -> connect
                       [] v = "ready" -> Settle(connect, "resolved")
                       [] OTHER -> Settle(connect, "rejected")
       /\ connectErr' = IF v \in {"error", "unexpected"}
                        THEN SettleErr(connect, connectErr, "STTError")
                        ELSE connectErr
       /\ steady' = InstallsSteady(v)
       /\ hist' = [hist EXCEPT !.firstMsg = k,
                               !.uncaught = @ \/ (v = "throw"),
                               !.wsCloseCalls =
                                 IF v \in {"error", "unexpected"} THEN @ + 1 ELSE @]
  /\ UNCHANGED <<_closed, _extending, _autoExtend,
                 timers, tf, parse, _queue, _waiters,
                 _callbacks, pc, received, sent, inFlight>>

\* ------------------------------------------------------------------- queue
\* The number of transcriptions pushed before the first sentinel, noted by the
\* steps that push a sentinel.
EndAt == IF hist.endAt < 0 THEN hist.nTrans ELSE hist.endAt

\* Consumers whose pull has not returned after the step.
Suspended == {c \in Consumers : pc'[c] # "idle"}

\* clearTimeout(timer) in wakerFn (stream.ts:218): the timer of consumer c's
\* _pullWithTimeout is disarmed.
ClearTimeout_forgotten(ts, c) == ts
ClearTimeout(ts, c) == ts \ {c}

\* The timer callback takes its waiter out of the list (stream.ts:211-213):
\* indexOf(wakerFn), then splice.
RemoveWaiter_keep(ws, c) == ws
RemoveWaiter(ws, c) == SelectSeq(ws, LAMBDA w : ~(w.c = c /\ w.timed))

\* The waiter the next _push calls is the wakerFn of a _pullWithTimeout.
WakesTimed == _waiters # <<>> /\ Head(_waiters).timed

\* _push (stream.ts:188-193).  The waiter of a _pull is the resolver of the
\* promise it awaits: calling it schedules the continuation.  The waiter of a
\* _pullWithTimeout is wakerFn (stream.ts:217-220), which takes the head of
\* the queue at once.
_push_handOff(item) ==
  IF _waiters = <<>>
  THEN /\ _queue' = Append(_queue, item)
       /\ UNCHANGED <<_waiters, pc, received, timers>>
  ELSE LET w == Head(_waiters) IN
         /\ _waiters' = Tail(_waiters)
         /\ UNCHANGED _queue
         /\ IF w.timed
            THEN /\ timers' = ClearTimeout(timers, w.c)
                 /\ received' = [received EXCEPT
                      ![w.c] = Append(@, [v |-> item, by |-> "shift"])]
                 /\ pc' = [pc EXCEPT ![w.c] = "idle"]
            ELSE /\ pc' = [pc EXCEPT ![w.c] = "woken"]
                 /\ UNCHANGED <<received, timers>>
_push_front(item) ==
  LET q == <<item>> \o _queue IN
    IF _waiters = <<>>
    THEN /\ _queue' = q
         /\ UNCHANGED <<_waiters, pc, received, timers>>
    ELSE LET w == Head(_waiters) IN
           /\ _waiters' = Tail(_waiters)
           /\ IF w.timed
              THEN /\ timers' = ClearTimeout(timers, w.c)
                   /\ _queue' = Tail(q)
                   /\ received' = [received EXCEPT
                        ![w.c] = Append(@, [v |-> Head(q), by |-> "shift"])]
                   /\ pc' = [pc EXCEPT ![w.c] = "idle"]
              ELSE /\ _queue' = q
                   /\ pc' = [pc EXCEPT ![w.c] = "woken"]
                   /\ UNCHANGED <<received, timers>>
_push(item) ==
  LET q == Append(_queue, item) IN
    IF _waiters = <<>>
    THEN /\ _queue' = q
         /\ UNCHANGED <<_waiters, pc, received, timers>>
    ELSE LET w == Head(_waiters) IN
           /\ _waiters' = Tail(_waiters)
           /\ IF w.timed
              THEN /\ timers' = ClearTimeout(timers, w.c)
                   /\ _queue' = Tail(q)
                   /\ received' = [received EXCEPT
                        ![w.c] = Append(@, [v |-> Head(q), by |-> "shift"])]
                   /\ pc' = [pc EXCEPT ![w.c] = "idle"]
              ELSE /\ _queue' = q
                   /\ pc' = [pc EXCEPT ![w.c] = "woken"]
                   /\ UNCHANGED <<received, timers>>

\* _pull up to its await (stream.ts:195-199).
_pull(c) ==
  /\ connect = "resolved"
  /\ pc[c] = "idle"
  /\ MayPull(c)
  /\ \/ /\ Len(_queue) > 0
        /\ received' = [received EXCEPT
             ![c] = Append(@, [v |-> Head(_queue), by |-> "shift"])]
        /\ _queue' = Tail(_queue)
        /\ UNCHANGED <<_waiters, pc>>
     \/ /\ Len(_queue) = 0
        /\ _waiters' = Append(_waiters, [c |-> c, timed |-> FALSE])
        /\ pc' = [pc EXCEPT ![c] = "wait"]
        /\ UNCHANGED <<_queue, received>>
  /\ UNCHANGED <<wsState, hsTimer, onceMsg, steady, connect, connectErr,
                 _closed, _extending, _autoExtend,
                 timers, tf, parse, _callbacks, sent, inFlight,
                 hist>>

\* The continuation of the await in _pull (stream.ts:200):
\* return this._queue.shift() ?? null.
_pullResume(c) ==
  /\ pc[c] = "woken"
  /\ \/ /\ Len(_queue) > 0
        /\ received' = [received EXCEPT
             ![c] = Append(@, [v |-> Head(_queue), by |-> "shift"])]
        /\ _queue' = Tail(_queue)
     \/ /\ Len(_queue) = 0
        /\ received' = [received EXCEPT
             ![c] = Append(@, [v |-> NULL, by |-> "empty"])]
        /\ UNCHANGED _queue
  /\ pc' = [pc EXCEPT ![c] = "idle"]
  /\ hist' = [hist EXCEPT !.atClose = @ \cap Suspended]
  /\ UNCHANGED <<wsState, hsTimer, onceMsg, steady, connect, connectErr,
                 _closed, _extending, _autoExtend,
                 timers, tf, parse, _waiters, _callbacks, sent,
                 inFlight>>

\* _pullWithTimeout up to the creation of its promise (stream.ts:203-222),
\* called by consumer c.
PullWithTimeoutCall(c) ==
  /\ pc[c] = "idle"
  /\ MayPull(c)
  /\ \/ /\ Len(_queue) > 0
        /\ received' = [received EXCEPT
             ![c] = Append(@, [v |-> Head(_queue), by |-> "shift"])]
        /\ _queue' = Tail(_queue)
        /\ UNCHANGED <<_waiters, pc, timers>>
     \/ /\ Len(_queue) = 0
        /\ _waiters' = Append(_waiters, [c |-> c, timed |-> TRUE])
        /\ timers' = timers \cup {c}
        /\ pc' = [pc EXCEPT ![c] = "waitT"]
        /\ UNCHANGED <<_queue, received>>

_pullWithTimeout(c) ==
  /\ connect = "resolved"
  /\ PullWithTimeoutCall(c)
  /\ UNCHANGED <<wsState, hsTimer, onceMsg, steady, connect, connectErr,
                 _closed, _extending, _autoExtend,
                 tf, parse, _callbacks, sent, inFlight,
                 hist>>

\* The value the timer callback of _pullWithTimeout resolves with
\* (stream.ts:214).
TimeoutResult == NULL

\* The timer callback of _pullWithTimeout (stream.ts:210-215).
\* resolve(null) settles the promise of the call if it is still pending; on a
\* promise that wakerFn already resolved it does nothing.
_pullTimerFire(c) ==
  /\ c \in timers
  /\ NoMicrotask
  /\ timers' = timers \ {c}
  /\ _waiters' = RemoveWaiter(_waiters, c)
  /\ IF pc[c] = "waitT"
     THEN /\ received' = [received EXCEPT
               ![c] = Append(@, [v |-> TimeoutResult, by |-> "timeout"])]
          /\ pc' = [pc EXCEPT ![c] = "idle"]
     ELSE UNCHANGED <<received, pc>>
  /\ hist' = [hist EXCEPT !.atClose = @ \cap Suspended]
  /\ UNCHANGED <<wsState, hsTimer, onceMsg, steady, connect, connectErr,
                 _closed, _extending, _autoExtend,
                 tf, parse, _queue, _callbacks, sent,
                 inFlight>>

\* -------------------------------------------------------------- dispatcher
\* The callback loop of the transcription branch (stream.ts:244-250): every
\* callback is called with t, in registration order; what a callback throws
\* is caught and logged.  throwers are the callbacks that throw on t.
InvokeCallbacks_noCatch(cbs, t, throwers) ==
  [i \in DOMAIN cbs |->
     IF \E j \in throwers : j < i THEN cbs[i]
     ELSE [cbs[i] EXCEPT !.seen = Append(@, t)]]
InvokeCallbacks(cbs, t, throwers) ==
  [i \in DOMAIN cbs |-> [cbs[i] EXCEPT !.seen = Append(@, t)]]

\* The branch _onMessage takes on a frame of kind k (stream.ts:228-265).  A
\* binary frame returns at once; text that is not JSON returns from the
\* catch; msg.type of null throws a TypeError outside the try; the types
\* session_extended and error are logged; a type without a branch falls
\* through.
Branch_errorEnds(k) ==
  CASE k = "transcription" -> "transcription"
    [] k = "session_expiring" -> "expiring"
    [] k \in {"session_expired", "error"} -> "expired"
    [] k = "json_null" -> "throw"
    [] OTHER -> "ignore"
Branch(k) ==
  CASE k = "transcription" -> "transcription"
    [] k = "session_expiring" -> "expiring"
    [] k = "session_expired" -> "expired"
    [] k = "json_null" -> "throw"
    [] OTHER -> "ignore"

\* The guard of the session_expiring branch (stream.ts:254).
ShouldExtend_noGuard == _autoExtend
ShouldExtend_ignoreOption == ~_extending
ShouldExtend == _autoExtend /\ ~_extending

\* The increment _autoExtendSession asks for, in minutes (stream.ts:279).
ExtendMinutes == 5

\* _onMessage (stream.ts:227-266) for a frame of kind k.
_onMessage(k) ==
  /\ steady
  /\ wsState \in {"open", "closing"}
  /\ \/ /\ Branch(k) = "ignore"
        /\ hist' = [hist EXCEPT !.dispatched = TRUE]
        /\ UNCHANGED <<_queue, _waiters, pc, received, timers, _callbacks,
                       _extending, inFlight>>
     \/ /\ Branch(k) = "throw"
        /\ Frames < MaxFrames
        /\ hist' = [hist EXCEPT !.dispatched = TRUE, !.crashes = @ + 1,
                                !.uncaught = TRUE]
        /\ UNCHANGED <<_queue, _waiters, pc, received, timers, _callbacks,
                       _extending, inFlight>>
     \/ /\ Branch(k) = "transcription"
        /\ Frames < MaxFrames
        /\ _push(hist.nTrans + 1)
        /\ \E throwers \in SUBSET DOMAIN _callbacks :
             /\ _callbacks' = InvokeCallbacks(_callbacks, hist.nTrans + 1, throwers)
             /\ hist' = [hist EXCEPT
                  !.dispatched = TRUE, !.nTrans = @ + 1,
                  !.threwAt = IF @ = 0 /\ throwers # {} THEN hist.nTrans + 1 ELSE @,
                  !.atClose = @ \cap Suspended,
                  !.wokeT = @ \/ WakesTimed]
        /\ UNCHANGED <<_extending, inFlight>>
     \/ /\ Branch(k) = "expiring"
        /\ Frames < MaxFrames
        /\ IF ShouldExtend
           THEN \* _autoExtendSession up to its await (stream.ts:274-280)
                /\ _extending' = TRUE
                /\ inFlight' = inFlight + 1
                /\ hist' = [hist EXCEPT !.dispatched = TRUE, !.warnings = @ + 1,
                                        !.extendCalls = @ + 1,
                                        !.minutes = ExtendMinutes]
           ELSE /\ hist' = [hist EXCEPT !.dispatched = TRUE, !.warnings = @ + 1]
                /\ UNCHANGED <<_extending, inFlight>>
        /\ UNCHANGED <<_queue, _waiters, pc, received, timers, _callbacks>>
     \/ /\ Branch(k) = "expired"
        /\ Frames < MaxFrames
        /\ hist.expired = 0   \* the server reports the expiry once
        /\ _push(NULL)
        /\ hist' = [hist EXCEPT !.dispatched = TRUE, !.expired = @ + 1,
                                !.nullPushes = @ + 1, !.endAt = EndAt,
                                !.atClose = @ \cap Suspended,
                                !.wokeT = @ \/ WakesTimed]
        /\ UNCHANGED <<_callbacks, _extending, inFlight>>
  /\ UNCHANGED <<wsState, hsTimer, onceMsg, steady, connect, connectErr,
                 _closed, _autoExtend, tf, parse, sent>>

\* The catch of _autoExtendSession (stream.ts:286-288): does the rejection of
\* a failed request leave the function?  Nothing awaits its promise
\* (stream.ts:255), so a rejection that left it would be unhandled.
ExtendFailureEscapes_noCatch(ok) == ~ok
ExtendFailureEscapes(ok) == FALSE

\* The rest of _autoExtendSession once the request completed, with success
\* (ok) or with failure (stream.ts:281-290): both are logged, finally clears
\* the guard.
_autoExtendSessionDone(ok) ==
  /\ inFlight > 0
  /\ NoMicrotask
  /\ inFlight' = inFlight - 1
  /\ _extending' = FALSE
  /\ hist' = [hist EXCEPT !.extFailed = @ \/ ~ok,
                          !.uncaught = @ \/ ExtendFailureEscapes(ok)]
  /\ UNCHANGED <<wsState, hsTimer, onceMsg, steady, connect, connectErr,
                 _closed, _autoExtend, timers, tf, parse, _queue, _waiters,
                 _callbacks, pc, received, sent>>

\* "close" event of the socket; _onClose (stream.ts:268-272) is its listener
\* once the steady-state listeners are installed.
WsCloseEvent ==
  /\ wsState \in {"open", "closing", "errored"}
  /\ NoMicrotask
  /\ wsState' = "closed"
  /\ IF steady /\ ~_closed
     THEN /\ _push(NULL)
          /\ hist' = [hist EXCEPT !.nullPushes = @ + 1, !.endAt = EndAt,
                                  !.atClose = @ \cap Suspended,
                                  !.wokeT = @ \/ WakesTimed]
     ELSE UNCHANGED <<_queue, _waiters, pc, received, timers, hist>>
  /\ UNCHANGED <<hsTimer, onceMsg, steady, connect, connectErr, _closed,
                 _extending, _autoExtend,
                 tf, parse, _callbacks, sent, inFlight>>

\* ------------------------------------------------------------- user calls
\* The caller holds the stream once open() returned, that is once _connect
\* resolved (client.ts:264-265).

\* The try/catch around this._ws.close() (stream.ts:122-126): does an
\* exception thrown by it leave close()?
CloseRaises(threw) == FALSE

\* The guard of close() (stream.ts:115).
AlreadyClosed_never == FALSE
AlreadyClosed == _closed

\* close() (stream.ts:114-128).  this._ws.close() may throw; the socket then
\* stays as it was.
close ==
  /\ connect = "resolved"
  /\ Calls < MaxCalls
  /\ \/ /\ AlreadyClosed
        /\ hist' = [hist EXCEPT !.closeCalls = @ + 1]
        /\ UNCHANGED <<wsState, _closed, _queue, _waiters, pc, received,
                       timers>>
     \/ /\ ~AlreadyClosed
        /\ _closed' = TRUE
        /\ _push(NULL)
        /\ \E threw \in BOOLEAN :
             /\ wsState' = IF threw THEN wsState ELSE WsClose(wsState)
             /\ hist' = [hist EXCEPT
                  !.closeCalls = @ + 1, !.nullPushes = @ + 1, !.endAt = EndAt,
                  !.wsCloseCalls = @ + 1,
                  !.raised = @ \/ CloseRaises(threw),
                  !.wokeT = @ \/ WakesTimed,
                  !.atClose = {c \in Consumers : pc[c] \in {"wait", "waitT"}}
                                \cap Suspended]
  /\ UNCHANGED <<hsTimer, onceMsg, steady, connect, connectErr, _extending,
                 _autoExtend, tf, parse, _callbacks, sent, inFlight>>

\* sendAudio(data) (stream.ts:133-136).  send() of the ws library transmits
\* on an open socket; on a socket that is closing or closed it transmits
\* nothing and, called without a callback as here, returns normally.
sendAudio ==
  /\ connect = "resolved"
  /\ Calls < MaxCalls
  /\ \/ /\ _closed
        /\ hist' = [hist EXCEPT !.sendCalls = @ + 1, !.sendRes = "throw"]
        /\ UNCHANGED sent
     \/ /\ ~_closed
        /\ wsState = "open"
        /\ sent' = Append(sent, "audio")
        /\ hist' = [hist EXCEPT !.sendCalls = @ + 1, !.sendRes = "ok"]
     \/ /\ ~_closed
        /\ wsState # "open"
        /\ hist' = [hist EXCEPT !.sendCalls = @ + 1, !.sendRes = "ok"]
        /\ UNCHANGED sent
  /\ UNCHANGED <<wsState, hsTimer, onceMsg, steady, connect, connectErr,
                 _closed, _extending, _autoExtend,
                 timers, tf, parse, _queue, _waiters,
                 _callbacks, pc, received, inFlight>>

\* onTranscription(callback) (stream.ts:141-143).  The callback recorded here
\* notes every transcription it is called with.
onTranscription ==
  /\ connect = "resolved"
  /\ Calls < MaxCalls
  /\ _callbacks' = Append(_callbacks, [from |-> hist.nTrans, seen |-> <<>>])
  /\ UNCHANGED <<wsState, hsTimer, onceMsg, steady, connect, connectErr,
                 _closed, _extending, _autoExtend,
                 timers, tf, parse, _queue, _waiters, pc,
                 received, sent, inFlight, hist>>

\* ---------------------------------------------------------- transcribeFile
\* What a reader of the container expects of a file: it can be read, the magic
\* words are right, a fmt chunk of at least 16 bytes comes before the data
\* chunk, every chunk up to and including the data chunk is complete, and the
\* format is PCM, mono, 16 kHz, 16 bit.
FirstChunk(f, id) ==
  IF \E i \in DOMAIN f.chunks : f.chunks[i].id = id
  THEN CHOOSE i \in DOMAIN f.chunks :
         /\ f.chunks[i].id = id
         /\ \A j \in 1..(i - 1) : f.chunks[j].id # id
  ELSE 0
WellFormed(f) ==
  /\ f.exists
  /\ f.magic
  /\ LET i == FirstChunk(f, "fmt ")
         j == FirstChunk(f, "data") IN
       /\ 0 < i
       /\ i < j
       /\ f.chunks[i].size >= 16
       /\ \A k \in 1..j : f.chunks[k].present = f.chunks[k].size
  /\ f.fmt = [audioFormat |-> 1, channels |-> 1, sampleRate |-> 16000,
              bitsPerSample |-> 16]
DeclaredDataSize(f) ==
  IF FirstChunk(f, "data") = 0 THEN -1
  ELSE f.chunks[FirstChunk(f, "data")].size

\* transcribeFile from the test of its while loop to its next await
\* (stream.ts:167-176): one chunk is sent and the pacing sleep begins, or, the
\* data sent, the silence is sent and the trailing sleep begins.
Pace(t) ==
  IF t.offset < t.len
  THEN [t EXCEPT
         !.pc = "pacing",
         !.out = @ \o
           <<[op |-> "chunk", at |-> t.offset,
              n |-> SubarrayLen(t.len, t.offset, t.offset + chunkBytes)],
             [op |-> "sleep", at |-> 0, n |-> CHUNK_MS]>>,
         !.offset = @ + chunkBytes]
  ELSE [t EXCEPT
         !.pc = "flush",
         !.out = @ \o
           <<[op |-> "silence", at |-> 0, n |-> silence(TRAILING_SILENCE_SECONDS)],
             [op |-> "sleep", at |-> 0, n |-> TRAILING_SILENCE_SECONDS * 1000]>>]

\* this._ws.send of that frame: transmitted on an open socket, dropped on a
\* socket that is closing or closed.
PaceSend(t) ==
  IF wsState = "open"
  THEN Append(sent, IF t.offset < t.len THEN "chunk" ELSE "silence")
  ELSE sent

\* transcribeFile(path) up to its first await (stream.ts:159-171), on file f.
\* The caller holds the stream, so _connect has resolved.
transcribeFile(f) ==
  /\ connect = "resolved"
  /\ tf.pc = "off"
  /\ LET r == loadWav(f)
         t == [TfOff EXCEPT !.err = r.err, !.len = r.len,
                            !.wellFormed = WellFormed(f),
                            !.declared = DeclaredDataSize(f)] IN
       IF r.err # "none"
       THEN /\ tf' = [t EXCEPT !.pc = "failed"]
            /\ UNCHANGED sent
       ELSE /\ tf' = Pace(t)
            /\ sent' = PaceSend(t)
  /\ UNCHANGED <<wsState, hsTimer, onceMsg, steady, connect, connectErr,
                 _closed, _extending, _autoExtend, _queue, _waiters,
                 _callbacks, pc, received, inFlight, timers, parse, hist>>

\* The continuation of await sleep(CHUNK_MS) (stream.ts:171, 167-176).
transcribeFilePace ==
  /\ tf.pc = "pacing"
  /\ NoMicrotask
  /\ tf' = Pace(tf)
  /\ sent' = PaceSend(tf)
  /\ UNCHANGED <<wsState, hsTimer, onceMsg, steady, connect, connectErr,
                 _closed, _extending, _autoExtend, _queue, _waiters,
                 _callbacks, pc, received, inFlight, timers, parse, hist>>

\* The continuation of the trailing sleep (stream.ts:176-180): the drain loop
\* begins with its first _pullWithTimeout.  The generator pulls as consumer 1.
transcribeFileDrain ==
  /\ tf.pc = "flush"
  /\ NoMicrotask
  /\ tf' = [tf EXCEPT !.pc = "drain"]
  /\ PullWithTimeoutCall(1)
  /\ UNCHANGED <<wsState, hsTimer, onceMsg, steady, connect, connectErr,
                 _closed, _extending, _autoExtend, _callbacks, sent, inFlight,
                 parse, hist>>

\* The drain loop after a yield (stream.ts:179-183): the caller asked for the
\* next value and the loop pulls again.  After a null the generator returned.
transcribeFileNext ==
  /\ tf.pc = "drain"
  /\ received[1] # <<>>
  /\ Last(received[1]).v # NULL
  /\ PullWithTimeoutCall(1)
  /\ UNCHANGED <<wsState, hsTimer, onceMsg, steady, connect, connectErr,
                 _closed, _extending, _autoExtend, _callbacks, sent, inFlight,
                 tf, parse, hist>>

\* ----------------------------------------------------------- specification
Next ==
  \/ WsOpen
  \/ HsTimeout
  \/ WsError
  \/ \E k \in HsKinds : HsMessage(k)
  \/ \E k \in FrameKinds : _onMessage(k)
  \/ WsCloseEvent
  \/ \E ok \in BOOLEAN : _autoExtendSessionDone(ok)
  \/ close
  \/ sendAudio
  \/ onTranscription
  \/ \E c \in Consumers : _pull(c)
  \/ \E c \in Consumers : _pullResume(c)
  \/ \E c \in Consumers : _pullWithTimeout(c)
  \/ \E c \in Consumers : _pullTimerFire(c)

Spec == Init /\ [][Next]_vars

\* Continuations of awaits run, and armed timers fire.
Fairness ==
  /\ WF_vars(HsTimeout)
  /\ \A c \in Consumers : WF_vars(_pullResume(c))
  /\ \A c \in Consumers : WF_vars(_pullTimerFire(c))

FairSpec == Spec /\ Fairness

\* The use of a stream to transcribe a file: the caller iterates
\* transcribeFile and calls close(); the connection and the server behave as
\* in Spec.
FileNext ==
  \/ WsOpen
  \/ HsTimeout
  \/ WsError
  \/ \E k \in HsKinds : HsMessage(k)
  \/ \E k \in FrameKinds : _onMessage(k)
  \/ WsCloseEvent
  \/ \E ok \in BOOLEAN : _autoExtendSessionDone(ok)
  \/ close
  \/ \E f \in WavFiles : transcribeFile(f)
  \/ transcribeFilePace
  \/ transcribeFileDrain
  \/ transcribeFileNext
  \/ \E c \in Consumers : _pullTimerFire(c)

FileSpec == Init /\ [][FileNext]_vars

TypeOK ==
  /\ wsState \in {"null", "connecting", "open", "closing", "aborting", "errored", "closed"}
  /\ connect \in {"pending", "resolved", "rejected"}
  /\ Len(_queue) <= MaxFrames + 2
  /\ \A c \in Consumers : pc[c] \in {"idle", "wait", "woken", "waitT"}
  /\ timers \subseteq Consumers
  /\ tf.pc \in {"off", "failed", "pacing", "flush", "drain"}
  /\ tf.err \in {"none", "AudioFormatError", "RangeError"}

\* ------------------------------------------------ transcriptionFromMessage
\* A field of a parsed JSON object, or of a Transcription: absent (reading it
\* gives undefined), the JSON value null, or a value.
Absent == [k |-> "absent"]
JsonNull == [k |-> "null"]
Val(x) == [k |-> "val", v |-> x]

\* a ?? d: d when a is undefined or null, a otherwise.
Coalesce_always(a, d) == Val(d)
Coalesce(a, d) == IF a.k = "val" THEN a ELSE Val(d)

\* transcriptionFromMessage (types.ts:31-39).  The "as" casts do nothing at
\* run time.
transcriptionFromMessage(msg) ==
  [text |-> Coalesce(msg.text, ""),
   start |-> msg.start,
   end |-> msg.end,
   confidence |-> msg.confidence,
   isFinal |-> Coalesce(msg.is_final, TRUE)]

\* Transcription frames as JSON.parse gives them.
Messages ==
  [text : {Absent, JsonNull, Val(""), Val("hello")},
   start : {Absent, JsonNull, Val(0), Val(1)},
   end : {Absent, Val(2)},
   confidence : {Absent, Val(1)},
   is_final : {Absent, JsonNull, Val(TRUE), Val(FALSE)}]

ParseInit ==
  /\ StreamInit
  /\ parse \in [done : {FALSE}, msg : Messages]

ParseApply ==
  /\ ~parse.done
  /\ parse' = [done |-> TRUE, msg |-> parse.msg,
               out |-> transcriptionFromMessage(parse.msg)]
  /\ UNCHANGED <<wsState, hsTimer, onceMsg, steady, connect, connectErr,
                 _closed, _extending, _autoExtend, _queue, _waiters,
                 _callbacks, pc, received, sent, inFlight, timers, tf, hist>>

ParseNext == ParseApply

ParseSpec == ParseInit /\ [][ParseNext]_vars

\* =================================================================== claims
Arrived == [j \in 1..hist.nTrans |-> j]

\* One of the three closing triggers has fired: close() was called, a
\* session_expired frame was dispatched, or the socket's close event came.
TriggerFired == _closed \/ hist.expired > 0 \/ wsState = "closed"

\* C1: on a stream that completed its handshake, once any closing trigger
\* (session_expired frame, connection close event, close() call) has fired, the
\* end sentinel has been enqueued exactly once in total.
C1_SentinelEnqueuedOnce ==
  (connect = "resolved" /\ TriggerFired) => hist.nullPushes = 1

\* C2: close() is idempotent: the first call sets _closed, pushes the sentinel
\* once and requests the close of the socket once; every later call changes no
\* state of the stream; _closed is never reset; no call raises, also when
\* closing the socket throws.
C2_CloseIdempotent ==
  [][/\ _closed => _closed'
     /\ ~hist'.raised
     /\ hist'.closeCalls = hist.closeCalls + 1 =>
          IF _closed
          THEN /\ UNCHANGED progVars
               /\ hist'.nullPushes = hist.nullPushes
               /\ hist'.wsCloseCalls = hist.wsCloseCalls
          ELSE /\ _closed'
               /\ hist'.nullPushes = hist.nullPushes + 1
               /\ hist'.wsCloseCalls = hist.wsCloseCalls + 1]_vars

\* close() was called three times on a socket whose close() threw: the socket
\* is still open, one sentinel was pushed and one close requested.
C2_Witness ==
  /\ hist.closeCalls >= 3
  /\ _closed
  /\ wsState = "open"
  /\ hist.nullPushes = 1
  /\ hist.wsCloseCalls = 1

\* C3: every callback has seen, once each and in arrival order, exactly the
\* transcriptions that arrived since it was registered (all of them when it was
\* registered before the first); and with one pulling consumer, what it has
\* pulled followed by what is still queued is exactly the arrived
\* transcriptions in arrival order.
C3_FanOutInOrder ==
  /\ \A i \in DOMAIN _callbacks :
       _callbacks[i].seen =
         [j \in 1..(hist.nTrans - _callbacks[i].from) |-> _callbacks[i].from + j]
  /\ PullsOf(2) = 0 =>
       NonNull(Values(received[1])) \o NonNull(_queue) = Arrived

\* Two transcriptions arrived; the callback registered before the first saw
\* both and the single consumer pulled both.
C3_Witness ==
  /\ hist.nTrans = 2
  /\ PullsOf(2) = 0
  /\ Len(_callbacks) = 1
  /\ _callbacks[1].from = 0
  /\ _callbacks[1].seen = <<1, 2>>
  /\ Values(received[1]) = <<1, 2>>

\* C4: at most one extension request is in flight, and a session_expiring
\* frame dispatched while one is in flight issues no request.
C4_OneExtensionInFlight ==
  /\ [](inFlight <= 1)
  /\ [][(hist'.warnings = hist.warnings + 1 /\ inFlight > 0) =>
          (hist'.extendCalls = hist.extendCalls /\ inFlight' = inFlight)]_vars

\* Two warnings were dispatched, the second while the request issued by the
\* first was in flight: one request in all.
C4_Witness ==
  /\ hist.warnings = 2
  /\ hist.extendCalls = 1
  /\ inFlight = 1

\* C5: whenever the session is closed (close() was called, a session_expired
\* frame was dispatched, or the connection was lost), a sendAudio call fails
\* with an error and transmits nothing.
C5_SendFailsWhenClosed ==
  [][(hist'.sendCalls = hist.sendCalls + 1 /\ TriggerFired) =>
       (sent' = sent /\ hist'.sendRes = "throw")]_vars

\* C6: every pull suspended when close() is called is eventually resumed and
\* returns the end sentinel.
C6_CloseWakesEveryPull ==
  \A c \in Consumers :
    (c \in hist.atClose) ~>
      (c \notin hist.atClose /\ received[c] # <<>> /\ Last(received[c]).v = NULL)

\* C7: the handshake's outcome.  A ready frame first, within the wait:
\* _connect resolved.  An error frame or a frame of any other type first:
\* _connect rejected and the client closed the socket.  The wait expired:
\* _connect rejected with ConnectionError and the client closed the socket.
C7_HandshakeOutcome ==
  /\ (hist.firstMsg = "ready" /\ ~hist.timedOut) => connect = "resolved"
  /\ hist.firstMsg \in TypedKinds \ {"ready"} =>
       /\ connect = "rejected"
       /\ hist.wsCloseCalls >= 1
       /\ wsState \notin {"connecting", "open"}
  /\ hist.timedOut =>
       /\ connect = "rejected"
       /\ connectErr = "ConnectionError"
       /\ hist.wsCloseCalls >= 1
       /\ wsState \notin {"connecting", "open"}

\* The first frame was a transcription: _connect rejected with the generic
\* error and the socket is closing.
C7_Witness ==
  /\ hist.firstMsg = "transcription"
  /\ connect = "rejected"
  /\ connectErr = "STTError"
  /\ wsState = "closing"

\* C8: the config frame is sent once per connection and is the first frame
\* sent; the steady-state listeners are installed only by a ready first frame;
\* before that nothing is dispatched, queued, called back or extended; and the
\* handling of the first frame itself dispatches nothing.
C8_HandshakeOrdering ==
  /\ [](/\ sent # <<>> => sent[1] = "config"
        /\ Cardinality({i \in DOMAIN sent : sent[i] = "config"}) <= 1
        /\ wsState = "open" => Cardinality({i \in DOMAIN sent : sent[i] = "config"}) = 1
        /\ steady => hist.firstMsg = "ready"
        /\ hist.firstMsg # "ready" =>
             /\ ~hist.dispatched
             /\ _queue = <<>>
             /\ hist.nTrans = 0
             /\ hist.extendCalls = 0
             /\ \A i \in DOMAIN _callbacks : _callbacks[i].seen = <<>>)
  /\ [][(onceMsg /\ ~onceMsg') =>
          (/\ hist'.dispatched = hist.dispatched
           /\ UNCHANGED <<_queue, _waiters, _callbacks, _extending, inFlight>>)]_vars

\* After the ready frame, audio was sent behind the config frame and a
\* transcription was dispatched.
C8_Witness ==
  /\ hist.firstMsg = "ready"
  /\ sent = <<"config", "audio">>
  /\ hist.nTrans = 1
  /\ hist.dispatched

\* The handshake failed: a first frame that is not ready (malformed ones
\* included), an error event or the server's close before any frame, or the
\* timeout.
HsFailed ==
  \/ hist.firstMsg \notin {"none", "ready"}
  \/ hist.timedOut
  \/ (hist.firstMsg = "none" /\ wsState \in {"errored", "closed"})

\* C9: every failed handshake leads to _connect being rejected, and the promise
\* of _connect does not stay pending forever.
C9_HandshakeTerminates ==
  /\ HsFailed ~> (connect = "rejected")
  /\ <>(connect # "pending")

\* C10: the value a _pullWithTimeout returns when its timer expired is
\* distinct from the end sentinel.
C10_TimeoutDistinctFromSentinel ==
  \A c \in Consumers : \A i \in DOMAIN received[c] :
    received[c][i].by = "timeout" => received[c][i].v # NULL

\* Consumer c has a waiter of a _pullWithTimeout in the waiter list.
TimedWaiter(c) ==
  \E i \in DOMAIN _waiters : _waiters[i].c = c /\ _waiters[i].timed

\* C11: the step in which the timer of a _pullWithTimeout fires takes that
\* call's waiter out of the waiter list and leaves the queue alone; every
\* waiter in the list belongs to a pull that has not returned; so a
\* transcription pushed once the timed-out call has returned, with no other
\* pull waiting, is appended to the queue and delivered to nobody.
C11_TimedOutPullLeavesNothing ==
  /\ [](\A i \in DOMAIN _waiters :
          pc[_waiters[i].c] = IF _waiters[i].timed THEN "waitT" ELSE "wait")
  /\ [][\A c \in Consumers :
          received'[c] = Append(received[c], [v |-> TimeoutResult, by |-> "timeout"])
            => (~TimedWaiter(c))' /\ _queue' = _queue]_vars
  /\ [][(/\ hist'.nTrans = hist.nTrans + 1
         /\ \A c \in Consumers : pc[c] = "idle"
         /\ \E c \in Consumers :
              received[c] # <<>> /\ Last(received[c]).by = "timeout")
          => (/\ _queue' = Append(_queue, hist.nTrans + 1)
              /\ received' = received
              /\ _waiters' = <<>>)]_vars

\* The only consumer timed out on an empty queue; the transcription that
\* arrived afterwards was buffered and its next pull returned it.
C11_Witness ==
  /\ PullsOf(2) = 0
  /\ received[1] = <<[v |-> TimeoutResult, by |-> "timeout"],
                     [v |-> 1, by |-> "shift"]>>
  /\ hist.nTrans = 1

\* C12: the step in which an extension request completes, failed or not,
\* leaves the closed flag, the queue, the waiters and the socket as they were,
\* pushes no sentinel, lets no exception out and clears the in-flight guard;
\* the guard is set only while a request is in flight; and a session_expiring
\* frame dispatched with auto-extend on and the guard clear issues a request.
C12_FailedExtensionAbsorbed ==
  /\ [](_extending => inFlight > 0)
  /\ [][inFlight' = inFlight - 1 =>
          (/\ ~_extending'
           /\ UNCHANGED <<_closed, _queue, _waiters, wsState, steady, received>>
           /\ hist'.nullPushes = hist.nullPushes
           /\ hist'.uncaught = hist.uncaught
           /\ hist'.raised = hist.raised)]_vars
  /\ [][(hist'.warnings = hist.warnings + 1 /\ _autoExtend /\ ~_extending) =>
          (hist'.extendCalls = hist.extendCalls + 1 /\ inFlight' = inFlight + 1)]_vars

\* An extension request failed; the stream stayed open without a sentinel, and
\* the next warning issued a second request.
C12_Witness ==
  /\ hist.extFailed
  /\ hist.extendCalls = 2
  /\ inFlight = 1
  /\ ~_closed
  /\ hist.nullPushes = 0
  /\ ~hist.uncaught

\* C13: with auto-extend off no extension request is ever issued and the guard
\* is never set, whatever warnings arrive; with auto-extend on and no request
\* in flight, the dispatch of a session_expiring frame issues exactly one
\* request, and every request asks for 5 minutes.
C13_AutoExtendPolicy ==
  /\ [](~_autoExtend =>
          (hist.extendCalls = 0 /\ inFlight = 0 /\ ~_extending))
  /\ [](hist.extendCalls > 0 => hist.minutes = 5)
  /\ [][(hist'.warnings = hist.warnings + 1 /\ _autoExtend /\ inFlight = 0) =>
          (/\ hist'.extendCalls = hist.extendCalls + 1
           /\ inFlight' = 1
           /\ hist'.minutes = 5)]_vars

\* Auto-extend is off and two warnings were dispatched: nothing was requested.
C13_Witness ==
  /\ ~_autoExtend
  /\ hist.warnings = 2
  /\ hist.extendCalls = 0
  /\ inFlight = 0

C18_CallbackExceptionsIsolated ==
  /\ [](\A i \in DOMAIN _callbacks :
          Len(_callbacks[i].seen) = hist.nTrans - _callbacks[i].from)
  /\ [][hist'.nTrans = hist.nTrans + 1 =>
          (/\ LET q == Append(_queue, hist.nTrans + 1) IN
                \/ _queue' = q
                \/ \E c \in Consumers :
                     /\ pc[c] = "waitT"
                     /\ _queue' = Tail(q)
                     /\ received'[c] =
                          Append(received[c], [v |-> Head(q), by |-> "shift"])
           /\ DOMAIN _callbacks' = DOMAIN _callbacks
           /\ \A i \in DOMAIN _callbacks :
                _callbacks'[i].seen = Append(_callbacks[i].seen, hist.nTrans + 1)
           /\ hist'.uncaught = hist.uncaught
           /\ UNCHANGED <<steady, wsState, _closed>>)]_vars

\* A callback threw on the first transcription; both callbacks (registered
\* before it) were called with it and with the second one, and both
\* transcriptions are in the queue.
C18_Witness ==
  /\ hist.threwAt = 1
  /\ hist.nTrans = 2
  /\ Len(_callbacks) = 2
  /\ \A i \in {1, 2} : _callbacks[i].from = 0 /\ _callbacks[i].seen = <<1, 2>>
  /\ _queue = <<1, 2>>
  /\ ~hist.uncaught

\* Frames of type error and session_extended, of a type the dispatcher does
\* not know ("other", and "ready" once the handshake is over), text that is
\* not JSON, and binary frames.
IgnoredKinds ==
  {"error", "session_extended", "other", "ready", "malformed", "binary"}

\* C19: the dispatch of a frame of one of these kinds leaves the queue, the
\* waiter list, the closed flag, the extension guard and the requests in
\* flight as they were, wakes and resolves no pull, calls no callback, pushes
\* no sentinel and lets no exception out of the dispatcher.
C19_IgnoredFramesChangeNothing ==
  [][(\E k \in IgnoredKinds : _onMessage(k)) =>
       (/\ UNCHANGED <<_queue, _waiters, _closed, _extending, inFlight,
                       _callbacks, pc, received, timers, wsState, steady>>
        /\ hist'.uncaught = hist.uncaught
        /\ hist'.nullPushes = hist.nullPushes
        /\ hist'.extendCalls = hist.extendCalls)]_vars

\* A consumer waits and a callback is registered; frames were dispatched, all
\* of these kinds, and the consumer still waits and the callback saw nothing.
C19_Witness ==
  /\ hist.dispatched
  /\ hist.nTrans = 0
  /\ hist.warnings = 0
  /\ hist.expired = 0
  /\ hist.crashes = 0
  /\ pc[1] = "wait"
  /\ Len(_waiters) = 1
  /\ Len(_callbacks) = 1
  /\ _callbacks[1].seen = <<>>
  /\ ~hist.uncaught

\* C20: a _pullWithTimeout that waits has its timer armed and its one waiter
\* in the list, and a consumer with no such call pending has neither; the step
\* in which a push resolves the call disarms the timer and the step in which
\* the timer fires takes the waiter out, each giving the call one result; so
\* no call is resolved a second time.
C20_ResolvedExactlyOnce ==
  /\ [](\A c \in Consumers :
          /\ c \in timers <=> pc[c] = "waitT"
          /\ TimedWaiter(c) <=> pc[c] = "waitT"
          /\ Cardinality({i \in DOMAIN _waiters : _waiters[i].c = c}) <= 1)
  /\ [][\A c \in Consumers :
          pc[c] = "waitT" /\ pc'[c] # "waitT" =>
            (/\ pc'[c] = "idle"
             /\ Len(received'[c]) = Len(received[c]) + 1
             /\ Last(received'[c]).by \in {"shift", "timeout"}
             /\ c \notin timers'
             /\ (~TimedWaiter(c))')]_vars

\* Both consumers waited in _pullWithTimeout; a push resolved the call of the
\* first and the timer that of the second; no timer and no waiter is left.
C20_Witness ==
  /\ hist.wokeT
  /\ received[1] = <<[v |-> 1, by |-> "shift"]>>
  /\ received[2] = <<[v |-> TimeoutResult, by |-> "timeout"]>>
  /\ timers = {}
  /\ _waiters = <<>>
  /\ pc = [c \in Consumers |-> "idle"]

\* What the claim expects transcribeFile to have done with L bytes of PCM by
\* the time the trailing wait has begun: ceil(L/640) chunks in file order, 640
\* bytes each but for a shorter last one, a 20 ms sleep after each, then one
\* silence frame of 64000 bytes and the 2000 ms wait.
ExpectedOut(L) ==
  LET n == (L + 639) \div 640 IN
    [k \in 1..(2 * n + 2) |->
       IF k = 2 * n + 1 THEN [op |-> "silence", at |-> 0, n |-> 64000]
       ELSE IF k = 2 * n + 2 THEN [op |-> "sleep", at |-> 0, n |-> 2000]
       ELSE IF k % 2 = 0 THEN [op |-> "sleep", at |-> 0, n |-> 20]
       ELSE [op |-> "chunk", at |-> 640 * (k \div 2),
             n |-> IF (k + 1) \div 2 < n THEN 640 ELSE L - 640 * (n - 1)]]

\* The frames among what transcribeFile did, in order.
RECURSIVE FramesOf(_)
FramesOf(out) ==
  IF out = <<>> THEN <<>>
  ELSE IF Head(out).op = "sleep" THEN FramesOf(Tail(out))
       ELSE <<Head(out).op>> \o FramesOf(Tail(out))

\* C15: once transcribeFile has sent the silence, what it sent and the sleeps
\* it began are exactly what the claim expects for the length of its PCM data;
\* while it paces, they are a beginning of it that stops after a sleep and
\* before the silence; it pulls nothing before the wait after the silence is
\* over; and on a socket that stayed open exactly these frames went out after
\* the config frame.
C15_FileChunking ==
  /\ tf.pc \in {"flush", "drain"} => tf.out = ExpectedOut(tf.len)
  /\ tf.pc = "pacing" =>
       /\ Len(tf.out) <= 2 * ((tf.len + 639) \div 640)
       /\ Len(tf.out) % 2 = 0
       /\ tf.out = SubSeq(ExpectedOut(tf.len), 1, Len(tf.out))
  /\ tf.pc \in {"off", "failed", "pacing", "flush"} => PullsOf(1) = 0
  /\ (tf.pc # "off" /\ wsState = "open") => sent = <<"config">> \o FramesOf(tf.out)

\* A file of 641 bytes of PCM: two chunks, of 640 bytes and of 1 byte, then
\* the silence, all transmitted, and the drain loop has pulled.
C15_Witness ==
  /\ tf.pc = "drain"
  /\ tf.len = 641
  /\ Len(tf.out) = 6
  /\ tf.out[3] = [op |-> "chunk", at |-> 640, n |-> 1]
  /\ sent = <<"config", "chunk", "chunk", "silence">>
  /\ PullsOf(1) > 0

\* C16: whenever transcribeFile has loaded a file that is not a well-formed
\* PCM16 mono 16 kHz WAV, loadWav threw AudioFormatError; and whenever loadWav
\* returned, the sample data has the length the data chunk declares.
C16_LoadWavRejectsMalformed ==
  tf.pc # "off" =>
    /\ ~tf.wellFormed => tf.err = "AudioFormatError"
    /\ tf.err = "none" => tf.len = tf.declared

\* C17: for every message, the Transcription made from it has text "" when
\* the message has no text and the given text otherwise, isFinal true when the
\* message has no is_final and the given boolean (false included) otherwise,
\* and start, end and confidence undefined when absent and as given otherwise.
C17_TranscriptionDefaults ==
  parse.done =>
    LET m == parse.msg
        t == parse.out IN
      /\ m.text = Absent => t.text = Val("")
      /\ m.text.k = "val" => t.text = m.text
      /\ m.is_final = Absent => t.isFinal = Val(TRUE)
      /\ m.is_final.k = "val" => t.isFinal = m.is_final
      /\ \A x \in {<<m.start, t.start>>, <<m.end, t.end>>,
                   <<m.confidence, t.confidence>>} :
           /\ x[1] = Absent => x[2] = Absent
           /\ x[1].k = "val" => x[2] = x[1]

\* The message {type: "transcription", text: "hello", is_final: false} was
\* converted.
C17_Witness ==
  /\ parse.done
  /\ parse.msg = [text |-> Val("hello"), start |-> Absent, end |-> Absent,
                  confidence |-> Absent, is_final |-> Val(FALSE)]
  /\ parse.out = [text |-> Val("hello"), start |-> Absent, end |-> Absent,
                  confidence |-> Absent, isFinal |-> Val(FALSE)]

\* How often x occurs in the sequence s.
RECURSIVE Count(_, _)
Count(s, x) ==
  IF s = <<>> THEN 0
  ELSE (IF Head(s) = x THEN 1 ELSE 0) + Count(Tail(s), x)

\* The sentinels a consumer took from the queue.
RECURSIVE SentinelsTaken(_)
SentinelsTaken(r) ==
  IF r = <<>> THEN 0
  ELSE (IF Head(r).v = NULL /\ Head(r).by = "shift" THEN 1 ELSE 0)
       + SentinelsTaken(Tail(r))

\* C21: every transcription pushed is, at any time, either in the queue once
\* or returned by one pull of one consumer, never both and never twice; every
\* sentinel pushed is in the queue or was taken from it by one pull; and a
\* step that pushes while pulls are suspended takes the oldest waiter, and only
\* it, out of the list and wakes no other consumer.
C21_NoItemLostOrDuplicated ==
  /\ [](\A j \in 1..hist.nTrans :
          Count(_queue, j) + Count(Values(received[1]), j)
            + Count(Values(received[2]), j) = 1)
  /\ [](Count(_queue, NULL) + SentinelsTaken(received[1])
          + SentinelsTaken(received[2]) = hist.nullPushes)
  /\ [][((hist'.nTrans = hist.nTrans + 1 \/ hist'.nullPushes = hist.nullPushes + 1)
          /\ _waiters # <<>>) =>
          (/\ _waiters' = Tail(_waiters)
           /\ pc'[Head(_waiters).c] # pc[Head(_waiters).c]
           /\ \A c \in Consumers \ {Head(_waiters).c} :
                pc'[c] = pc[c] /\ received'[c] = received[c])]_vars

\* Two pulls were suspended when the first transcription was pushed: the push
\* woke the older one, the other still waits, and the transcription is in the
\* queue for the woken pull.
C21_Witness ==
  /\ hist.nTrans = 1
  /\ pc = <<"woken", "wait">>
  /\ _waiters = <<[c |-> 2, timed |-> FALSE]>>
  /\ _queue = <<1>>

\* The session is terminal: close() was called or a session_expired frame
\* was dispatched.
Terminal == _closed \/ hist.expired > 0

\* C22: once the session is terminal, no step issues an extension request.
C22_NoExtensionOnceTerminal ==
  [][Terminal => hist'.extendCalls = hist.extendCalls]_vars

\* C23: once a sentinel has been enqueued, no step enqueues a transcription
\* and no step calls a callback.
C23_SentinelIsLast ==
  [][hist.nullPushes > 0 =>
       (/\ hist'.nTrans = hist.nTrans
        /\ \A i \in DOMAIN _callbacks :
             _callbacks'[i].seen = _callbacks[i].seen)]_vars

\* C24: a null that a _pull returned (taken from the queue, or found the queue
\* empty on resumption) was preceded by the push of a sentinel.
C24_NullOnlyAfterSentinel ==
  \A c \in Consumers : \A i \in DOMAIN received[c] :
    (received[c][i].v = NULL /\ received[c][i].by \in {"shift", "empty"})
      => hist.nullPushes > 0

\* C25: a stream whose _connect was rejected has no steady-state listeners,
\* has dispatched no frame, pushed nothing and requested no extension.
C25_FailedHandshakeStaysFailed ==
  connect = "rejected" =>
    /\ ~steady
    /\ ~hist.dispatched
    /\ _queue = <<>>
    /\ hist.nullPushes = 0
    /\ hist.extendCalls = 0

\* C26: once close() has been called, transcribeFile hands no chunk and no
\* silence frame to the socket and nothing more is transmitted, whether it was
\* pacing when close() was called or is started afterwards.
C26_FileStreamingRespectsClose ==
  [][_closed => (FramesOf(tf'.out) = FramesOf(tf.out) /\ sent' = sent)]_vars

====
